---------------------------- MODULE Spec2Model ----------------------------
(***************************************************************************)
(* A model of twitter_bookmark_analytics: the CSV loader (load_data), the  *)
(* keyword classifier (categorize_tech), the frequent-word analysis        *)
(* (get_top_words), the chart builders (create_time_series_plot,           *)
(* create_category_plot) and the dashboard (main).                         *)
(*                                                                         *)
(* A character is a string: an ASCII character is written as itself, any   *)
(* other character by its code point, "U+30B3".  A Python str is a         *)
(* sequence of characters.                                                 *)
(***************************************************************************)
EXTENDS Integers, Sequences, FiniteSets, TLC

VARIABLES
  file,        \* load_data: the resource behind file_path
  loadPc,      \* load_data: the position in the function
  loadReads,   \* load_data: the reads of the file made so far, in order
  bookmark_df, \* load_data: the local table, once the full read has made it
  loadResult,  \* load_data: what the call did (nothing yet, raised, returned)
  catInput,    \* categorize_tech: the argument text
  catPc,       \* categorize_tech: the position in the function
  catResult,   \* categorize_tech: what the call did
  texts,       \* get_top_words: the argument texts
  n,           \* get_top_words: the argument n
  tech_only,   \* get_top_words: the argument tech_only
  corpus,      \* get_top_words: whether NLTK finds its stop-word corpus
  words,       \* get_top_words: the local list of tokens
  stop_words,  \* get_top_words: the local stop-word set
  word_counts, \* get_top_words: the local Counter, in insertion order
  topPc,       \* get_top_words: the position in the function
  topResult,   \* get_top_words: what the call did
  chartFn,     \* chart builders: the builder called
  chartDf,     \* chart builders: the argument df
  chartFault,  \* chart builders: the exception a library call raises, if any
  hasResampleError, \* chart builders: pandas.errors has a name ResampleError
  chartPc,     \* chart builders: the position in the function
  chartResult, \* chart builders: what the call did
  data_path,   \* main: the resource behind data_path
  mainPc,      \* main: the position in the function
  main_df,     \* main: the local bookmark_df
  date_range,  \* main: the local date_range
  selected_categories, \* main: the local selected_categories
  filtered_df, \* main: the local filtered_df
  metrics,     \* main: the values given to st.metric
  failures,    \* main: the stages whose call raised, in order
  reports,     \* main: the calls of st.error, in order
  shown,       \* main: the calls of st.plotly_chart and st.dataframe, in order
  stages,      \* main: the stages entered so far, in order
  mainResult   \* main: what the call did

loadVars == <<file, loadPc, loadReads, bookmark_df, loadResult>>
classifyVars == <<catInput, catPc, catResult>>
wordsVars ==
  <<texts, n, tech_only, corpus, words, stop_words, word_counts, topPc,
    topResult>>
chartVars ==
  <<chartFn, chartDf, chartFault, hasResampleError, chartPc, chartResult>>
mainVars ==
  <<data_path, mainPc, main_df, date_range, selected_categories, filtered_df,
    metrics, failures, reports, shown, stages, mainResult>>
vars == <<loadVars, classifyVars, wordsVars, chartVars, mainVars>>

\* What an action of one function leaves alone.
notLoadVars == <<classifyVars, wordsVars, chartVars, mainVars>>
notClassifyVars == <<loadVars, wordsVars, chartVars, mainVars>>
notWordsVars == <<loadVars, classifyVars, chartVars, mainVars>>
notChartVars == <<loadVars, classifyVars, wordsVars, mainVars>>
notMainVars == <<loadVars, classifyVars, wordsVars, chartVars>>

(***************************************************************************)
(* Bounds of the model.                                                    *)
(***************************************************************************)
MaxRows == 2
MaxTextLen == 3
MaxTexts == 2
MaxN == 2

(***************************************************************************)
(* Outcomes of a call, and the exception classes the code raises.          *)
(***************************************************************************)
NoMessage == [text |-> "", cols |-> <<>>]

Pending == [kind |-> "pending"]

Raised(type, msg) == [kind |-> "raise", type |-> type, msg |-> msg]

Returned(value) == [kind |-> "return", value |-> value]

\* The base classes of an exception class (pandas.errors, builtins).
Bases(type) ==
  CASE type = "ParserError"       -> {"ParserError", "ValueError", "Exception"}
    [] type = "EmptyDataError"    -> {"EmptyDataError", "ValueError", "Exception"}
    [] type = "FileNotFoundError" -> {"FileNotFoundError", "OSError", "Exception"}
    [] type = "ValueError"        -> {"ValueError", "Exception"}
    [] type = "TypeError"         -> {"TypeError", "Exception"}
    [] OTHER                      -> {type, "Exception"}

IsInstance(outcome, class) ==
  outcome.kind = "raise" /\ class \in Bases(outcome.type)

(***************************************************************************)
(* load_data                                                               *)
(***************************************************************************)
REQUIRED_COLUMNS == <<"tweeted_at", "screen_name", "full_text">>

Range(s) == {s[i] : i \in DOMAIN s}

\* The columns a header may carry: the required ones and a category
\* column.
Columns == Range(REQUIRED_COLUMNS) \cup {"category"}

\* The tweeted_at cells of a data row: two date-times, an empty field
\* and a text that is no date-time.
TimestampCells ==
  {"2023-01-01 12:00:00", "2023-01-02 12:00:00", "", "invalid_datetime"}

\* The cell of a category column of the file.
CsvLabel == <<"T", "e", "c", "h">>

\* A data row.  malformed: the tokenizer rejects the line (it has more
\* fields than the table has columns).
DataRows ==
  [tweeted_at : TimestampCells, screen_name : {"user1", "user2"},
   full_text : {"tweet"}, category : {CsvLabel}, malformed : BOOLEAN]

SeqsUpTo(S, max) == UNION {[1..k -> S] : k \in 0..max}

Files ==
  {[kind |-> k, header |-> {}, rows |-> <<>>] :
      k \in {"missing", "unreadable", "empty"}}
  \cup
  {[kind |-> "csv", header |-> h, rows |-> r] :
      h \in SUBSET Columns, r \in SeqsUpTo(DataRows, MaxRows)}

NaN == "NaN"

\* The place of a cell in a row of a table that has no such column.
NoCell == <<>>
NaT == [nat |-> TRUE]

\* pd.read_csv turns an empty field into NaN.
ReadCell(cell) == IF cell = "" THEN NaN ELSE cell

\* pd.read_csv(file_path, nrows=0): the header alone.
ReadCsvHeader(f) ==
  CASE f.kind = "missing"    -> Raised("FileNotFoundError", NoMessage)
    [] f.kind = "empty"      -> Raised("EmptyDataError", NoMessage)
    [] f.kind = "unreadable" -> Raised("UnicodeDecodeError", NoMessage)
    [] OTHER                 -> Returned([columns |-> f.header])

\* pd.read_csv(file_path, on_bad_lines='error', delimiter=','): the table.
ReadCsvFull(f) ==
  CASE f.kind = "missing"    -> Raised("FileNotFoundError", NoMessage)
    [] f.kind = "empty"      -> Raised("EmptyDataError", NoMessage)
    [] f.kind = "unreadable" -> Raised("UnicodeDecodeError", NoMessage)
    [] \E i \in DOMAIN f.rows : f.rows[i].malformed
                             -> Raised("ParserError",
                                       [text |-> "tokenizing", cols |-> <<>>])
    [] OTHER ->
         Returned([columns |-> f.header,
                   dtype   |-> "object",
                   rows    |-> [i \in DOMAIN f.rows |->
                                 [tweeted_at  |-> ReadCell(f.rows[i].tweeted_at),
                                  screen_name |-> f.rows[i].screen_name,
                                  full_text   |-> f.rows[i].full_text,
                                  category    |->
                                    IF "category" \in f.header
                                    THEN f.rows[i].category ELSE NoCell]]])

\* The date-time a cell parses to.
ParseDatetime(cell) ==
  CASE cell = "2023-01-01 12:00:00" -> [nat |-> FALSE, date |-> <<2023, 1, 1>>, hour |-> 12]
    [] cell = "2023-01-02 12:00:00" -> [nat |-> FALSE, date |-> <<2023, 1, 2>>, hour |-> 12]

Parseable(cell) == cell \in {"2023-01-01 12:00:00", "2023-01-02 12:00:00"}

\* pd.to_datetime on a column: a missing value becomes NaT, a text that is
\* no date-time raises.
ToDatetimeCell(cell) == IF cell = NaN THEN NaT ELSE ParseDatetime(cell)

ToDatetime(df) ==
  IF \E i \in DOMAIN df.rows :
        df.rows[i].tweeted_at # NaN /\ ~Parseable(df.rows[i].tweeted_at)
  THEN Raised("ValueError", NoMessage)
  ELSE Returned([df EXCEPT
         !.dtype = "datetime64[ns]",
         !.rows  = [i \in DOMAIN df.rows |->
                      [df.rows[i] EXCEPT
                         !.tweeted_at = ToDatetimeCell(df.rows[i].tweeted_at)]]])

\* missing_columns = [col for col in REQUIRED_COLUMNS if col not in header_df.columns]
MissingColumns(columns) ==
  SelectSeq(REQUIRED_COLUMNS, LAMBDA col : col \notin columns)

\* The first try block without its except FileNotFoundError clause: the
\* catch-all wraps the missing file into a ParserError.
HeaderCheckWrapsAll(f) ==
  LET r == ReadCsvHeader(f) IN
  IF r.kind = "raise"
  THEN IF r.type \in {"EmptyDataError", "ParserError"}
       THEN r
       ELSE Raised("ParserError", [text |-> r.type, cols |-> <<>>])
  ELSE IF MissingColumns(r.value.columns) # <<>>
       THEN Raised("ParserError",
                   [text |-> "missing_columns",
                    cols |-> MissingColumns(r.value.columns)])
       ELSE Pending

\* The first try block without the look at the columns.
HeaderCheckNoColumns(f) ==
  LET r == ReadCsvHeader(f) IN
  IF r.kind = "raise"
  THEN IF r.type \in {"EmptyDataError", "ParserError", "FileNotFoundError"}
       THEN r
       ELSE Raised("ParserError", [text |-> r.type, cols |-> <<>>])
  ELSE Pending

\* The first try block: the header is read and the required columns are
\* looked for; the outcome is the exception that leaves the block, or
\* Pending when the function goes on.
HeaderCheck(f) ==
  LET r == ReadCsvHeader(f) IN
  IF r.kind = "raise"
  THEN IF r.type \in {"EmptyDataError", "ParserError", "FileNotFoundError"}
       THEN r
       ELSE Raised("ParserError", [text |-> r.type, cols |-> <<>>])
  ELSE IF MissingColumns(r.value.columns) # <<>>
       THEN Raised("ParserError",
                   [text |-> "missing_columns",
                    cols |-> MissingColumns(r.value.columns)])
       ELSE Pending

\* The second read made like the first, with nrows=0: no data row.
FullReadHeaderOnly(f) ==
  LET r == ReadCsvFull(f) IN
  IF r.kind = "raise" THEN r ELSE Returned([r.value EXCEPT !.rows = <<>>])

\* The second try block: every exception of the full read is raised again.
FullRead(f) == ReadCsvFull(f)

\* The third try block: any failure of the conversion becomes a ValueError.
ConvertTimestamps(df) ==
  LET r == ToDatetime(df) IN
  IF r.kind = "raise"
  THEN Raised("ValueError", [text |-> "datetime_conversion", cols |-> <<>>])
  ELSE r

NoTable == [columns |-> {}, dtype |-> "object", rows |-> <<>>]

NoFile == [kind |-> "none", header |-> {}, rows |-> <<>>]

\* No call of load_data is under way.
LoadIdle ==
  /\ file = NoFile
  /\ loadPc = "idle"
  /\ loadReads = <<>>
  /\ bookmark_df = NoTable
  /\ loadResult = Pending

LoadStart ==
  /\ file \in Files
  /\ loadPc = "header"
  /\ loadReads = <<>>
  /\ bookmark_df = NoTable
  /\ loadResult = Pending

\* Lines 67-85: the header is read and checked.
LoadHeader ==
  /\ loadPc = "header"
  /\ loadReads' = Append(loadReads, "header")
  /\ loadResult' = HeaderCheck(file)
  /\ loadPc' = IF HeaderCheck(file).kind = "raise" THEN "done" ELSE "full"
  /\ UNCHANGED <<file, bookmark_df, notLoadVars>>

\* Lines 87-105: the whole file is read.
LoadFull ==
  /\ loadPc = "full"
  /\ loadReads' = Append(loadReads, "full")
  /\ LET r == FullRead(file) IN
       IF r.kind = "raise"
       THEN /\ loadResult' = r
            /\ loadPc' = "done"
            /\ UNCHANGED bookmark_df
       ELSE /\ bookmark_df' = r.value
            /\ loadPc' = "convert"
            /\ UNCHANGED loadResult
  /\ UNCHANGED <<file, notLoadVars>>

\* Lines 107-115: tweeted_at is converted and the table returned.
LoadConvert ==
  /\ loadPc = "convert"
  /\ LET r == ConvertTimestamps(bookmark_df) IN
       /\ loadResult' = r
       /\ bookmark_df' = IF r.kind = "return" THEN r.value ELSE bookmark_df
  /\ loadPc' = "done"
  /\ UNCHANGED <<file, loadReads, notLoadVars>>

NextLoad == LoadHeader \/ LoadFull \/ LoadConvert

(***************************************************************************)
(* Characters and strings                                                  *)
(***************************************************************************)
\* The characters c with c.isascii().
AsciiChars ==
  {
    " ", "!", "#", "$", "%", "&", "'", "(", ")", "*", "+", ",", "-", ".",
    "/", "0", "1", "2", "3", "4", "5", "6", "7", "8", "9", ":", ";", "<",
    "=", ">", "?", "@", "A", "B", "C", "D", "E", "F", "G", "H", "I", "J",
    "K", "L", "M", "N", "O", "P", "Q", "R", "S", "T", "U", "V", "W", "X",
    "Y", "Z", "[", "]", "^", "_", "a", "b", "c", "d", "e", "f", "g", "h",
    "i", "j", "k", "l", "m", "n", "o", "p", "q", "r", "s", "t", "u", "v",
    "w", "x", "y", "z", "{", "|", "}", "~"
  }

\* The characters c with c.isdigit().
DigitChars ==
  {
    "0", "1", "2", "3", "4", "5", "6", "7", "8", "9", "U+FF11", "U+FF12"
  }

\* The characters c with c.isspace(), the regular expression's whitespace class.
SpaceChars ==
  {
    " "
  }

\* The characters of the regular expression's word class.
WordChars ==
  {
    "0", "1", "2", "3", "4", "5", "6", "7", "8", "9", "A", "B", "C", "D",
    "E", "F", "G", "H", "I", "J", "K", "L", "M", "N", "O", "P", "Q", "R",
    "S", "T", "U", "V", "W", "X", "Y", "Z", "_", "a", "b", "c", "d", "e",
    "f", "g", "h", "i", "j", "k", "l", "m", "n", "o", "p", "q", "r", "s",
    "t", "u", "v", "w", "x", "y", "z", "U+3042", "U+3044", "U+304C",
    "U+3053", "U+3057", "U+3059", "U+305F", "U+3060", "U+3063", "U+3064",
    "U+3066", "U+3067", "U+3068", "U+306A", "U+306B", "U+306E", "U+306F",
    "U+307E", "U+3082", "U+308B", "U+308C", "U+3092", "U+30A1", "U+30A2",
    "U+30A3", "U+30A4", "U+30A6", "U+30A7", "U+30A8", "U+30A9", "U+30AA",
    "U+30AB", "U+30AC", "U+30AD", "U+30AE", "U+30AF", "U+30B0", "U+30B1",
    "U+30B3", "U+30B4", "U+30B5", "U+30B6", "U+30B7", "U+30B8", "U+30B9",
    "U+30BA", "U+30BB", "U+30BF", "U+30C1", "U+30C3", "U+30C4", "U+30C6",
    "U+30C7", "U+30C8", "U+30C9", "U+30CA", "U+30CB", "U+30CE", "U+30CF",
    "U+30D0", "U+30D1", "U+30D3", "U+30D4", "U+30D5", "U+30D6", "U+30D7",
    "U+30D9", "U+30DD", "U+30DE", "U+30DF", "U+30E0", "U+30E1", "U+30E2",
    "U+30E3", "U+30E5", "U+30E7", "U+30E9", "U+30EA", "U+30EB", "U+30EC",
    "U+30ED", "U+30F3", "U+30FC", "U+4E26", "U+4EBA", "U+4ECA", "U+4F7F",
    "U+4FE1", "U+51E6", "U+5206", "U+5217", "U+5316", "U+53EF", "U+53F7",
    "U+5473", "U+5929", "U+5B66", "U+5BFE", "U+5DE5", "U+6027", "U+6563",
    "U+65B0", "U+65B9", "U+65C5", "U+65E5", "U+6697", "U+68B0", "U+6A5F",
    "U+6C17", "U+7406", "U+7528", "U+753B", "U+77E5", "U+7B11", "U+7B56",
    "U+7F8E", "U+7FD2", "U+80FD", "U+884C", "U+8A08", "U+8A3C", "U+8A8D",
    "U+983C", "U+FF11", "U+FF12", "U+FF37", "U+FF57"
  }

\* Hiragana.
HiraganaChars ==
  {
    "U+3042", "U+3044", "U+304C", "U+3053", "U+3057", "U+3059", "U+305F",
    "U+3060", "U+3063", "U+3064", "U+3066", "U+3067", "U+3068", "U+306A",
    "U+306B", "U+306E", "U+306F", "U+307E", "U+3082", "U+308B", "U+308C",
    "U+3092"
  }

\* Katakana, the prolonged sound mark included.
KatakanaChars ==
  {
    "U+30A1", "U+30A2", "U+30A3", "U+30A4", "U+30A6", "U+30A7", "U+30A8",
    "U+30A9", "U+30AA", "U+30AB", "U+30AC", "U+30AD", "U+30AE", "U+30AF",
    "U+30B0", "U+30B1", "U+30B3", "U+30B4", "U+30B5", "U+30B6", "U+30B7",
    "U+30B8", "U+30B9", "U+30BA", "U+30BB", "U+30BF", "U+30C1", "U+30C3",
    "U+30C4", "U+30C6", "U+30C7", "U+30C8", "U+30C9", "U+30CA", "U+30CB",
    "U+30CE", "U+30CF", "U+30D0", "U+30D1", "U+30D3", "U+30D4", "U+30D5",
    "U+30D6", "U+30D7", "U+30D9", "U+30DD", "U+30DE", "U+30DF", "U+30E0",
    "U+30E1", "U+30E2", "U+30E3", "U+30E5", "U+30E7", "U+30E9", "U+30EA",
    "U+30EB", "U+30EC", "U+30ED", "U+30F3", "U+30FC"
  }

\* Kanji.
KanjiChars ==
  {
    "U+4E26", "U+4EBA", "U+4ECA", "U+4F7F", "U+4FE1", "U+51E6", "U+5206",
    "U+5217", "U+5316", "U+53EF", "U+53F7", "U+5473", "U+5929", "U+5B66",
    "U+5BFE", "U+5DE5", "U+6027", "U+6563", "U+65B0", "U+65B9", "U+65C5",
    "U+65E5", "U+6697", "U+68B0", "U+6A5F", "U+6C17", "U+7406", "U+7528",
    "U+753B", "U+77E5", "U+7B11", "U+7B56", "U+7F8E", "U+7FD2", "U+80FD",
    "U+884C", "U+8A08", "U+8A3C", "U+8A8D", "U+983C"
  }

\* Latin letters, ASCII and full-width.
AlphaChars ==
  {
    "A", "B", "C", "D", "E", "F", "G", "H", "I", "J", "K", "L", "M", "N",
    "O", "P", "Q", "R", "S", "T", "U", "V", "W", "X", "Y", "Z", "a", "b",
    "c", "d", "e", "f", "g", "h", "i", "j", "k", "l", "m", "n", "o", "p",
    "q", "r", "s", "t", "u", "v", "w", "x", "y", "z", "U+FF37", "U+FF57"
  }

\* The pairs <<c, c.lower()>> of the characters that c.lower() changes.
LowerPairs ==
  {
    <<"A", "a">>, <<"B", "b">>, <<"C", "c">>, <<"D", "d">>, <<"E", "e">>,
    <<"F", "f">>, <<"G", "g">>, <<"H", "h">>, <<"I", "i">>, <<"J", "j">>,
    <<"K", "k">>, <<"L", "l">>, <<"M", "m">>, <<"N", "n">>, <<"O", "o">>,
    <<"P", "p">>, <<"Q", "q">>, <<"R", "r">>, <<"S", "s">>, <<"T", "t">>,
    <<"U", "u">>, <<"V", "v">>, <<"W", "w">>, <<"X", "x">>, <<"Y", "y">>,
    <<"Z", "z">>, <<"U+FF37", "U+FF57">>
  }

\* c.lower() of one character.
LowerChar(c) ==
  IF \E p \in LowerPairs : p[1] = c
  THEN (CHOOSE p \in LowerPairs : p[1] = c)[2]
  ELSE c

\* s.lower()
StrLower(s) == [i \in DOMAIN s |-> LowerChar(s[i])]

RECURSIVE FindFrom(_, _, _)
\* Whether needle occurs in hay at offset i or later.
FindFrom(hay, needle, i) ==
  IF i + Len(needle) - 1 > Len(hay)
  THEN FALSE
  ELSE IF SubSeq(hay, i, i + Len(needle) - 1) = needle
       THEN TRUE
       ELSE FindFrom(hay, needle, i + 1)

\* needle in hay
StrContains(hay, needle) == FindFrom(hay, needle, 1)

(***************************************************************************)
(* categorize_tech                                                         *)
(***************************************************************************)
TECH_KEYWORDS ==
  <<
    <<"p", "y", "t", "h", "o", "n">>,
    <<"j", "a", "v", "a", "s", "c", "r", "i", "p", "t">>,
    <<"p", "r", "o", "g", "r", "a", "m", "m", "i", "n", "g">>,
    <<"c", "o", "d", "e">>,
    <<"d", "e", "v", "e", "l", "o", "p", "e", "r">>,
    <<"t", "e", "c", "h">>,
    <<"c", "y", "b", "e", "r", "s", "e", "c", "u", "r", "i", "t", "y">>,
    <<"s", "e", "c", "u", "r", "i", "t", "y">>,
    <<"i", "t">>,
    <<"s", "o", "f", "t", "w", "a", "r", "e">>,
    <<"w", "e", "b">>,
    <<"a", "p", "i">>,
    <<"d", "a", "t", "a">>,
    <<"g", "i", "t", "h", "u", "b">>,
    <<"d", "o", "c", "k", "e", "r">>,
    <<"c", "l", "o", "u", "d">>,
    <<"a", "i">>,
    <<"m", "l">>,
    <<"d", "a", "t", "a", "b", "a", "s", "e">>,
    <<"d", "e", "v">>,
    <<"c", "o", "d", "i", "n", "g">>,
    <<"U+30D7", "U+30ED", "U+30B0", "U+30E9", "U+30DF", "U+30F3", "U+30B0">>,
    <<"U+30A8", "U+30F3", "U+30B8", "U+30CB", "U+30A2">>,
    <<"U+30B3", "U+30FC", "U+30C9">>,
    <<"U+30BB", "U+30AD", "U+30E5", "U+30EA", "U+30C6", "U+30A3">>,
    <<"U+6A5F", "U+68B0", "U+5B66", "U+7FD2">>,
    <<"U+30AF", "U+30E9", "U+30A6", "U+30C9">>,
    <<"U+30AF", "U+30E9", "U+30A6", "U+30C9", "U+30B3", "U+30F3", "U+30D4", "U+30E5", "U+30FC", "U+30C6", "U+30A3", "U+30F3", "U+30B0">>,
    <<"U+30AD", "U+30E3", "U+30EA", "U+30A2">>,
    <<"U+30BB", "U+30AD", "U+30E5", "U+30EA", "U+30C6", "U+30A3", "U+5BFE", "U+7B56">>
  >>

TECHNOLOGY == <<"U+30C6", "U+30AF", "U+30CE", "U+30ED", "U+30B8", "U+30FC">>
OTHER_LABEL == <<"U+305D", "U+306E", "U+4ED6">>

\* A Python value: a str with its characters, or a value of another type.
Str(chars) == [type |-> "str", chars |-> chars]

NonStrings ==
  {[type |-> t, chars |-> <<>>] : t \in {"NoneType", "int", "bool", "list", "float"}}

\* isinstance(text, str)
IsStr(v) == v.type = "str"

\* pd.isna(text): None and the float NaN.
IsNa(v) == v.type \in {"NoneType", "float"}

\* text.lower(): a method of str alone.
Lower(v) ==
  IF IsStr(v)
  THEN Returned(StrLower(v.chars))
  ELSE Raised("AttributeError", NoMessage)

\* any(keyword in text_lower for keyword in TECH_KEYWORDS)
AnyKeyword(text_lower) ==
  \E k \in DOMAIN TECH_KEYWORDS : StrContains(text_lower, TECH_KEYWORDS[k])

\* categorize_tech without the lower-casing of the text.
categorize_tech_case_sensitive(text) ==
  IF ~IsStr(text)
  THEN Returned(OTHER_LABEL)
  ELSE IF IsNa(text)
       THEN Returned(OTHER_LABEL)
       ELSE Returned(IF AnyKeyword(text.chars) THEN TECHNOLOGY ELSE OTHER_LABEL)

categorize_tech(text) ==
  IF ~IsStr(text)
  THEN Returned(OTHER_LABEL)
  ELSE IF IsNa(text)
       THEN Returned(OTHER_LABEL)
       ELSE LET text_lower == Lower(text) IN
            IF text_lower.kind = "raise"
            THEN text_lower
            ELSE Returned(IF AnyKeyword(text_lower.value)
                          THEN TECHNOLOGY ELSE OTHER_LABEL)

\* The characters of the generated argument texts: letters of the keywords
\* "it", "ai" and of the katakana keyword for "code", in both cases, and
\* a letter of no keyword.
ClassifyAlphabet == {"a", "i", "t", "I", "T", "x", "U+30B3", "U+30FC", "U+30C9"}

\* The texts of tests/test_data_logger.py.
TestTexts ==
  {
    <<"P", "y", "t", "h", "o", "n", "U+30D7", "U+30ED", "U+30B0", "U+30E9", "U+30DF", "U+30F3", "U+30B0", "U+306B", "U+3064", "U+3044", "U+3066">>,
    <<"J", "a", "v", "a", "S", "c", "r", "i", "p", "t", "U+306E", "U+65B0", "U+6A5F", "U+80FD">>,
    <<"G", "i", "t", "H", "u", "b", "U+306E", "U+4F7F", "U+3044", "U+65B9">>,
    <<"U+6A5F", "U+68B0", "U+5B66", "U+7FD2", "U+3068", "A", "I">>,
    <<"U+30AF", "U+30E9", "U+30A6", "U+30C9", "U+30B3", "U+30F3", "U+30D4", "U+30E5", "U+30FC", "U+30C6", "U+30A3", "U+30F3", "U+30B0">>,
    <<"U+30A8", "U+30F3", "U+30B8", "U+30CB", "U+30A2", "U+306E", "U+30AD", "U+30E3", "U+30EA", "U+30A2">>,
    <<"U+30BB", "U+30AD", "U+30E5", "U+30EA", "U+30C6", "U+30A3", "U+5BFE", "U+7B56">>,
    <<"U+4ECA", "U+65E5", "U+306E", "U+5929", "U+6C17", "U+306B", "U+3064", "U+3044", "U+3066">>,
    <<"U+7F8E", "U+5473", "U+3057", "U+3044", "U+30EC", "U+30B9", "U+30C8", "U+30E9", "U+30F3">>,
    <<"U+65C5", "U+884C", "U+306E", "U+8A08", "U+753B">>,
    <<"U+30B9", "U+30DD", "U+30FC", "U+30C4", "U+30CB", "U+30E5", "U+30FC", "U+30B9">>
  }

ClassifyInputs ==
  {Str(s) : s \in SeqsUpTo(ClassifyAlphabet, MaxTextLen) \cup TestTexts}
  \cup NonStrings

NoValue == [type |-> "none", chars |-> <<>>]

\* No call of categorize_tech is under way.
ClassifyIdle ==
  /\ catInput = NoValue
  /\ catPc = "idle"
  /\ catResult = Pending

ClassifyStart ==
  /\ catInput \in ClassifyInputs
  /\ catPc = "call"
  /\ catResult = Pending

Categorize ==
  /\ catPc = "call"
  /\ catResult' = categorize_tech(catInput)
  /\ catPc' = "done"
  /\ UNCHANGED <<catInput, notClassifyVars>>

NextClassify == Categorize


(***************************************************************************)
(* get_top_words                                                           *)
(***************************************************************************)
\* The words added to the stop words in get_top_words.
TwitterStopWords ==
  {
    <<"R", "T">>, <<"h", "t", "t", "p">>, <<"h", "t", "t", "p", "s">>,
    <<"c", "o">>, <<"j", "p">>, <<"c", "o", "m">>, <<"w", "w", "w">>,
    <<"a", "m", "p">>, <<".", ".", ".">>, <<"U+2026">>, <<"U+FF01">>,
    <<"U+FF1F">>, <<"U+7B11">>, <<"w">>, <<"U+FF57">>, <<"U+266A">>,
    <<"U+FF1A">>, <<"U+FF1B">>, <<"U+3059", "U+308B">>,
    <<"U+3044", "U+308B">>, <<"U+306A", "U+308B">>, <<"U+3042", "U+308B">>,
    <<"U+308C", "U+308B">>, <<"U+306E">>, <<"U+304C">>, <<"U+306B">>,
    <<"U+3092">>, <<"U+306F">>, <<"U+305F">>, <<"U+3067", "U+3059">>,
    <<"U+307E", "U+3059">>, <<"U+306A", "U+3044">>, <<"U+3060">>,
    <<"U+3063", "U+3066">>, <<"U+3066">>, <<"U+3068">>, <<"U+3082">>,
    <<"U+306A">>
  }

\* The technology vocabulary of get_top_words.
tech_words ==
  {
    <<"A", "W", "S">>, <<"A", "z", "u", "r", "e">>, <<"G", "C", "P">>,
    <<"K", "u", "b", "e", "r", "n", "e", "t", "e", "s">>,
    <<"D", "o", "c", "k", "e", "r">>, <<"D", "e", "v", "O", "p", "s">>,
    <<"C", "I", "/", "C", "D">>,
    <<"U+30DE", "U+30A4", "U+30AF", "U+30ED", "U+30B5", "U+30FC", "U+30D3", "U+30B9">>,
    <<"U+30B3", "U+30F3", "U+30C6", "U+30CA">>,
    <<"U+30B5", "U+30FC", "U+30D0", "U+30FC", "U+30EC", "U+30B9">>,
    <<"U+30A4", "U+30F3", "U+30D5", "U+30E9">>,
    <<"U+30AF", "U+30E9", "U+30A6", "U+30C9">>,
    <<"U+30D5", "U+30ED", "U+30F3", "U+30C8", "U+30A8", "U+30F3", "U+30C9">>,
    <<"U+30D0", "U+30C3", "U+30AF", "U+30A8", "U+30F3", "U+30C9">>,
    <<"U+30D5", "U+30EB", "U+30B9", "U+30BF", "U+30C3", "U+30AF">>,
    <<"U+30C7", "U+30FC", "U+30BF", "U+30D9", "U+30FC", "U+30B9">>,
    <<"S", "Q", "L">>, <<"N", "o", "S", "Q", "L">>, <<"A", "P", "I">>,
    <<"R", "E", "S", "T">>, <<"G", "r", "a", "p", "h", "Q", "L">>,
    <<"W", "e", "b", "S", "o", "c", "k", "e", "t">>,
    <<"H", "T", "T", "P">>, <<"H", "T", "T", "P", "S">>, <<"S", "S", "L">>,
    <<"T", "L", "S">>,
    <<"U+30BB", "U+30AD", "U+30E5", "U+30EA", "U+30C6", "U+30A3">>,
    <<"U+8A8D", "U+8A3C">>, <<"U+8A8D", "U+53EF">>,
    <<"U+6697", "U+53F7", "U+5316">>,
    <<"U+30CF", "U+30C3", "U+30B7", "U+30E5">>,
    <<"U+30A2", "U+30EB", "U+30B4", "U+30EA", "U+30BA", "U+30E0">>,
    <<"U+6A5F", "U+68B0", "U+5B66", "U+7FD2">>,
    <<"U+30C7", "U+30A3", "U+30FC", "U+30D7", "U+30E9", "U+30FC", "U+30CB", "U+30F3", "U+30B0">>,
    <<"A", "I">>, <<"U+4EBA", "U+5DE5", "U+77E5", "U+80FD">>,
    <<"U+30CB", "U+30E5", "U+30FC", "U+30E9", "U+30EB">>,
    <<"U+30C7", "U+30FC", "U+30BF", "U+30B5", "U+30A4", "U+30A8", "U+30F3", "U+30B9">>,
    <<"U+30D3", "U+30C3", "U+30B0", "U+30C7", "U+30FC", "U+30BF">>,
    <<"U+5206", "U+6563", "U+51E6", "U+7406">>,
    <<"U+4E26", "U+5217", "U+51E6", "U+7406">>,
    <<"U+30B9", "U+30B1", "U+30FC", "U+30E9", "U+30D3", "U+30EA", "U+30C6", "U+30A3">>,
    <<"U+53EF", "U+7528", "U+6027">>, <<"U+4FE1", "U+983C", "U+6027">>,
    <<"U+30E2", "U+30CB", "U+30BF", "U+30EA", "U+30F3", "U+30B0">>,
    <<"U+30ED", "U+30AE", "U+30F3", "U+30B0">>,
    <<"U+30C7", "U+30D0", "U+30C3", "U+30B0">>,
    <<"U+30C6", "U+30B9", "U+30C8">>, <<"C", "I">>, <<"C", "D">>,
    <<"G", "i", "t">>, <<"G", "i", "t", "H", "u", "b">>,
    <<"G", "i", "t", "L", "a", "b">>,
    <<"B", "i", "t", "B", "u", "c", "k", "e", "t">>,
    <<"U+30A2", "U+30B8", "U+30E3", "U+30A4", "U+30EB">>,
    <<"U+30B9", "U+30AF", "U+30E9", "U+30E0">>,
    <<"U+30AB", "U+30F3", "U+30D0", "U+30F3">>,
    <<"U+30EC", "U+30AC", "U+30B7", "U+30FC">>,
    <<"U+30EA", "U+30D5", "U+30A1", "U+30AF", "U+30BF", "U+30EA", "U+30F3", "U+30B0">>,
    <<"U+30AF", "U+30EA", "U+30FC", "U+30F3", "U+30B3", "U+30FC", "U+30C9">>,
    <<"U+30C7", "U+30B6", "U+30A4", "U+30F3", "U+30D1", "U+30BF", "U+30FC", "U+30F3">>,
    <<"U+30A2", "U+30FC", "U+30AD", "U+30C6", "U+30AF", "U+30C1", "U+30E3">>,
    <<"U+30E2", "U+30CE", "U+30EA", "U+30B9">>,
    <<"U+30B5", "U+30FC", "U+30D3", "U+30B9", "U+30E1", "U+30C3", "U+30B7", "U+30E5">>,
    <<"I", "s", "t", "i", "o">>, <<"E", "n", "v", "o", "y">>,
    <<"P", "r", "o", "m", "e", "t", "h", "e", "u", "s">>,
    <<"G", "r", "a", "f", "a", "n", "a">>, <<"E", "L", "K">>,
    <<"E", "l", "a", "s", "t", "i", "c", "s", "e", "a", "r", "c", "h">>,
    <<"U+30D6", "U+30ED", "U+30C3", "U+30AF", "U+30C1", "U+30A7", "U+30FC", "U+30F3">>,
    <<"U+30B9", "U+30DE", "U+30FC", "U+30C8", "U+30B3", "U+30F3", "U+30C8", "U+30E9", "U+30AF", "U+30C8">>,
    <<"W", "e", "b", "3">>, <<"N", "F", "T">>,
    <<"U+30E1", "U+30BF", "U+30D0", "U+30FC", "U+30B9">>, <<"A", "R">>,
    <<"V", "R">>, <<"I", "o", "T">>, <<"5", "G">>, <<"6", "G">>,
    <<"U+30A8", "U+30C3", "U+30B8", "U+30B3", "U+30F3", "U+30D4", "U+30E5", "U+30FC", "U+30C6", "U+30A3", "U+30F3", "U+30B0">>,
    <<"U+30D5", "U+30A9", "U+30B0", "U+30B3", "U+30F3", "U+30D4", "U+30E5", "U+30FC", "U+30C6", "U+30A3", "U+30F3", "U+30B0">>,
    <<"U+30DE", "U+30EB", "U+30C1", "U+30AF", "U+30E9", "U+30A6", "U+30C9">>,
    <<"U+30CF", "U+30A4", "U+30D6", "U+30EA", "U+30C3", "U+30C9", "U+30AF", "U+30E9", "U+30A6", "U+30C9">>,
    <<"S", "a", "a", "S">>, <<"P", "a", "a", "S">>, <<"I", "a", "a", "S">>,
    <<"F", "a", "a", "S">>, <<"B", "a", "a", "S">>, <<"D", "a", "a", "S">>,
    <<"X", "a", "a", "S">>,
    <<"U+30AA", "U+30FC", "U+30C8", "U+30E1", "U+30FC", "U+30B7", "U+30E7", "U+30F3">>,
    <<"R", "P", "A">>,
    <<"U+30ED", "U+30FC", "U+30B3", "U+30FC", "U+30C9">>,
    <<"U+30CE", "U+30FC", "U+30B3", "U+30FC", "U+30C9">>,
    <<"P", "W", "A">>, <<"S", "P", "A">>, <<"S", "S", "R">>,
    <<"C", "S", "R">>, <<"J", "A", "M", "s", "t", "a", "c", "k">>,
    <<"W", "e", "b", "A", "s", "s", "e", "m", "b", "l", "y">>,
    <<"W", "A", "S", "M">>, <<"R", "u", "s", "t">>, <<"G", "o">>,
    <<"P", "y", "t", "h", "o", "n">>,
    <<"J", "a", "v", "a", "S", "c", "r", "i", "p", "t">>,
    <<"T", "y", "p", "e", "S", "c", "r", "i", "p", "t">>,
    <<"R", "e", "a", "c", "t">>, <<"V", "u", "e">>,
    <<"A", "n", "g", "u", "l", "a", "r">>,
    <<"S", "v", "e", "l", "t", "e">>,
    <<"N", "e", "x", "t", ".", "j", "s">>,
    <<"N", "u", "x", "t", ".", "j", "s">>,
    <<"N", "o", "d", "e", ".", "j", "s">>, <<"D", "e", "n", "o">>,
    <<"D", "j", "a", "n", "g", "o">>, <<"F", "l", "a", "s", "k">>,
    <<"F", "a", "s", "t", "A", "P", "I">>,
    <<"S", "p", "r", "i", "n", "g">>, <<"R", "a", "i", "l", "s">>,
    <<"L", "a", "r", "a", "v", "e", "l">>, <<"P", "H", "P">>,
    <<"J", "a", "v", "a">>, <<"K", "o", "t", "l", "i", "n">>,
    <<"S", "w", "i", "f", "t">>, <<"F", "l", "u", "t", "t", "e", "r">>,
    <<"R", "e", "a", "c", "t", " ", "N", "a", "t", "i", "v", "e">>,
    <<"X", "a", "m", "a", "r", "i", "n">>, <<"U", "n", "i", "t", "y">>,
    <<"U", "n", "r", "e", "a", "l", " ", "E", "n", "g", "i", "n", "e">>,
    <<"C", "l", "o", "j", "u", "r", "e">>,
    <<"E", "l", "i", "x", "i", "r">>, <<"S", "c", "a", "l", "a">>,
    <<"C", "o", "m", "m", "o", "n", " ", "L", "i", "s", "p">>,
    <<"E", "r", "l", "a", "n", "g">>, <<"p", "y", "t", "h", "o", "n">>,
    <<"j", "a", "v", "a", "s", "c", "r", "i", "p", "t">>,
    <<"p", "r", "o", "g", "r", "a", "m", "m", "i", "n", "g">>,
    <<"c", "o", "d", "e">>,
    <<"d", "e", "v", "e", "l", "o", "p", "e", "r">>,
    <<"t", "e", "c", "h">>,
    <<"c", "y", "b", "e", "r", "s", "e", "c", "u", "r", "i", "t", "y">>,
    <<"s", "e", "c", "u", "r", "i", "t", "y">>, <<"I", "T">>,
    <<"s", "o", "f", "t", "w", "a", "r", "e">>, <<"w", "e", "b">>,
    <<"a", "p", "i">>, <<"d", "a", "t", "a">>,
    <<"g", "i", "t", "h", "u", "b">>, <<"d", "o", "c", "k", "e", "r">>,
    <<"c", "l", "o", "u", "d">>, <<"M", "L">>,
    <<"d", "a", "t", "a", "b", "a", "s", "e">>, <<"d", "e", "v">>,
    <<"c", "o", "d", "i", "n", "g">>,
    <<"U+30D7", "U+30ED", "U+30B0", "U+30E9", "U+30DF", "U+30F3", "U+30B0">>,
    <<"U+30A8", "U+30F3", "U+30B8", "U+30CB", "U+30A2">>,
    <<"U+30B3", "U+30FC", "U+30C9">>
  }

\* What stopwords.words("japanese") gives when NLTK finds its corpus: the
\* corpus is no part of the repository, two of its function words stand
\* for it.
NltkJapanese == {<<"U+3053", "U+308C">>, <<"U+305D", "U+308C">>}

None == [type |-> "NoneType", chars |-> <<>>]

\* pd.notna(text)
NotNa(v) == ~IsNa(v)

\* str(text)
PyStr(v) == v.chars

RECURSIVE JoinSpace(_)
\* " ".join(strs)
JoinSpace(strs) ==
  IF strs = <<>> THEN <<>>
  ELSE IF Len(strs) = 1 THEN strs[1]
  ELSE strs[1] \o <<" ">> \o JoinSpace(Tail(strs))

RECURSIVE LStrip(_)
LStrip(s) ==
  IF s # <<>> /\ s[1] \in SpaceChars THEN LStrip(Tail(s)) ELSE s

RECURSIVE RStrip(_)
RStrip(s) ==
  IF s # <<>> /\ s[Len(s)] \in SpaceChars
  THEN RStrip(SubSeq(s, 1, Len(s) - 1))
  ELSE s

\* s.strip()
Strip(s) == RStrip(LStrip(s))

\* " ".join(str(text) for text in texts if pd.notna(text))
AllText(items) ==
  LET kept == SelectSeq(items, NotNa) IN
  JoinSpace([i \in DOMAIN kept |-> PyStr(kept[i])])

RECURSIVE NonSpaceRunEnd(_, _)
\* The last index of the run of characters that are no whitespace and
\* that starts at i.
NonSpaceRunEnd(s, i) ==
  IF i < Len(s) /\ s[i + 1] \notin SpaceChars
  THEN NonSpaceRunEnd(s, i + 1)
  ELSE i

\* The pattern http\S+ matches at i.
MatchHttp(s, i) ==
  /\ i + 4 <= Len(s)
  /\ SubSeq(s, i, i + 3) = <<"h", "t", "t", "p">>
  /\ s[i + 4] \notin SpaceChars

\* The pattern www.\S+ matches at i.
MatchWww(s, i) ==
  /\ i + 4 <= Len(s)
  /\ SubSeq(s, i, i + 2) = <<"w", "w", "w">>
  /\ s[i + 4] \notin SpaceChars

RECURSIVE SubUrls(_, _)
\* re.sub(r"http\S+|www.\S+", "", text), from index i on.
SubUrls(s, i) ==
  IF i > Len(s) THEN <<>>
  ELSE IF MatchHttp(s, i) \/ MatchWww(s, i)
       THEN SubUrls(s, NonSpaceRunEnd(s, i + 4) + 1)
       ELSE <<s[i]>> \o SubUrls(s, i + 1)

\* re.sub(r"[^\w\s]", "", text)
SubNonWord(s) == SelectSeq(s, LAMBDA c : c \in WordChars \cup SpaceChars)

\* _preprocess_text
PreprocessText(text) == SubNonWord(SubUrls(text, 1))

\* The class of a character for the segmenter.
CharClass(c) ==
  CASE c \in SpaceChars    -> "SPACE"
    [] c \in DigitChars    -> "NUMERIC"
    [] c \in AlphaChars    -> "ALPHA"
    [] c \in HiraganaChars -> "HIRAGANA"
    [] c \in KatakanaChars -> "KATAKANA"
    [] c \in KanjiChars    -> "KANJI"
    [] OTHER               -> "SYMBOL"

RECURSIVE Segment(_, _, _)
\* The tokens of s from index i on, cur being the token under way: a token
\* ends at whitespace and where the class of the characters changes.
Segment(s, i, cur) ==
  LET done == IF cur = <<>> THEN <<>> ELSE <<cur>> IN
  IF i > Len(s) THEN done
  ELSE IF s[i] \in SpaceChars THEN done \o Segment(s, i + 1, <<>>)
  ELSE IF cur # <<>> /\ CharClass(cur[1]) # CharClass(s[i])
       THEN done \o Segment(s, i + 1, <<s[i]>>)
       ELSE Segment(s, i + 1, Append(cur, s[i]))

\* tagger.parse(processed_text).split(): MeCab is no part of the
\* repository; its segmentation is modelled by runs of one character class.
TaggerParseSplit(processed_text) == Segment(processed_text, 1, <<>>)

RECURSIVE ExtendWords(_)
\* The loop that fills words: the tokens of every text that is not null.
ExtendWords(items) ==
  IF items = <<>> THEN <<>>
  ELSE (IF NotNa(items[1])
        THEN TaggerParseSplit(PreprocessText(PyStr(items[1])))
        ELSE <<>>)
       \o ExtendWords(Tail(items))

\* stop_words: the NLTK list, or the empty set on a LookupError, and the
\* added words.
StopWords(c) ==
  (IF c = "available" THEN NltkJapanese ELSE {}) \cup TwitterStopWords

\* word.isdigit()
IsDigit(word) ==
  word # <<>> /\ \A i \in DOMAIN word : word[i] \in DigitChars

\* all(c.isascii() for c in word)
AllAscii(word) == \A i \in DOMAIN word : word[i] \in AsciiChars

\* The condition without its last conjunct, the one on ASCII words.
KeepWordAsciiToo(word, tech, stop) ==
  IF tech
  THEN word \in tech_words /\ Len(word) > 1 /\ ~IsDigit(word)
  ELSE /\ StrLower(word) \notin stop
       /\ Len(word) > 1
       /\ ~IsDigit(word)

\* The condition without the look at the stop words.
KeepWordNoStopWords(word, tech, stop) ==
  IF tech
  THEN word \in tech_words /\ Len(word) > 1 /\ ~IsDigit(word)
  ELSE /\ Len(word) > 1
       /\ ~IsDigit(word)
       /\ ~AllAscii(word)

\* The condition with the stop words left out in both modes.
KeepWordStopWordsInBothModes(word, tech, stop) ==
  IF tech
  THEN /\ word \in tech_words /\ Len(word) > 1 /\ ~IsDigit(word)
       /\ StrLower(word) \notin stop
  ELSE /\ StrLower(word) \notin stop
       /\ Len(word) > 1
       /\ ~IsDigit(word)
       /\ ~AllAscii(word)

\* The condition of the generator that feeds the Counter.
KeepWord(word, tech, stop) ==
  IF tech
  THEN word \in tech_words /\ Len(word) > 1 /\ ~IsDigit(word)
  ELSE /\ StrLower(word) \notin stop
       /\ Len(word) > 1
       /\ ~IsDigit(word)
       /\ ~AllAscii(word)

\* Counter: one more of word w; a new word goes to the end.
CounterAdd(counter, w) ==
  IF \E i \in DOMAIN counter : counter[i][1] = w
  THEN [i \in DOMAIN counter |->
          IF counter[i][1] = w THEN <<w, counter[i][2] + 1>> ELSE counter[i]]
  ELSE Append(counter, <<w, 1>>)

RECURSIVE CounterOf(_, _)
\* Counter(iterable): the pairs <<word, count>> in order of first insertion.
CounterOf(ws, counter) ==
  IF ws = <<>> THEN counter
  ELSE CounterOf(Tail(ws), CounterAdd(counter, ws[1]))

RECURSIVE SortByCount(_)
\* sorted(counter.items(), key=count, reverse=True): stable, the first of
\* the pairs with the largest count comes first.
SortByCount(counter) ==
  IF counter = <<>> THEN <<>>
  ELSE LET i == CHOOSE i \in DOMAIN counter :
                  /\ \A j \in DOMAIN counter : counter[j][2] <= counter[i][2]
                  /\ \A j \in 1..(i - 1) : counter[j][2] < counter[i][2]
       IN <<counter[i]>>
          \o SortByCount(SubSeq(counter, 1, i - 1)
                         \o SubSeq(counter, i + 1, Len(counter)))

\* The first k entries of the Counter in insertion order, unsorted.
MostCommonUnsorted(counter, k) ==
  SubSeq(counter, 1, IF k < Len(counter) THEN k ELSE Len(counter))

\* word_counts.most_common(k)
MostCommon(counter, k) ==
  SubSeq(SortByCount(counter), 1, IF k < Len(counter) THEN k ELSE Len(counter))

\* _validate_input with the two checks in the other order.
ValidateInputLengthFirst(t) ==
  IF t.type = "int"
  THEN Raised("TypeError", [text |-> "no_len", cols |-> <<>>])
  ELSE IF Len(t.items) = 0
       THEN Raised("ValueError", [text |-> "empty_input", cols |-> <<>>])
       ELSE IF t.type \notin {"list", "Series"}
            THEN Raised("TypeError", [text |-> "not_list_or_series", cols |-> <<>>])
            ELSE Pending

\* _validate_input
ValidateInput(t) ==
  IF t.type \notin {"list", "Series"}
  THEN Raised("TypeError", [text |-> "not_list_or_series", cols |-> <<>>])
  ELSE IF Len(t.items) = 0
       THEN Raised("ValueError", [text |-> "empty_input", cols |-> <<>>])
       ELSE Pending

NoLocals(outcome) ==
  [outcome |-> outcome, words |-> <<>>, stop_words |-> {}, word_counts |-> <<>>]

\* get_top_words: its outcome and the locals it has made.  A TypeError or
\* ValueError raised in the body passes the except clause unchanged.
get_top_words(t, k, tech, c) ==
  IF ValidateInput(t).kind = "raise"
  THEN NoLocals(ValidateInput(t))
  ELSE IF Strip(AllText(t.items)) = <<>>
  THEN NoLocals(Raised("ValueError", [text |-> "no_valid_text", cols |-> <<>>]))
  ELSE LET ws     == ExtendWords(t.items)
           stop   == StopWords(c)
           kept   == SelectSeq(ws, LAMBDA w : KeepWord(w, tech, stop))
           counts == CounterOf(kept, <<>>)
       IN [outcome     |-> Returned(MostCommon(counts, k)),
           words       |-> ws,
           stop_words  |-> stop,
           word_counts |-> counts]

\* The texts of the entries of the argument.
SampleTexts ==
  {
    <<"H", "T", "T", "P", " ", "A", "P", "I">>,
    <<"h", "t", "t", "p", " ", "U+3053", "U+308C", " ", "U+30B3", "U+30FC", "U+30C9">>,
    <<"h", "t", "t", "p", "s", ":", "/", "/", "t", ".", "c", "o", "/", "x", " ", "U+6A5F", "U+68B0", "U+5B66", "U+7FD2">>,
    <<"U+30B3", "U+30FC", "U+30C9", " ", "U+3059", "U+308B", " ", "U+7B11">>,
    <<"U+6A5F", "U+68B0", "U+5B66", "U+7FD2", " ", "U+30B3", "U+30FC", "U+30C9", " ", "U+6A5F", "U+68B0", "U+5B66", "U+7FD2">>,
    <<"P", "y", "t", "h", "o", "n", "!", "!", " ", "1", "2", " ", "U+FF11", "U+FF12">>,
    <<" ", " ">>,
    <<"U+FF1F", "U+FF01">>
  }

TextEntries == {Str(t) : t \in SampleTexts} \cup {None}

\* The arguments: a list or a Series of entries, a tuple, an int.
TextsInputs ==
  {[type |-> c, items |-> it] :
      c \in {"list", "Series"}, it \in SeqsUpTo(TextEntries, MaxTexts)}
  \cup {[type |-> "tuple", items |-> it] :
          it \in {<<>>, <<Str(<<"H", "T", "T", "P", " ", "A", "P", "I">>)>>}}
  \cup {[type |-> "int", items |-> <<>>]}

\* No call of get_top_words is under way.
WordsIdle ==
  /\ texts = [type |-> "none", items |-> <<>>]
  /\ n = 0
  /\ tech_only = FALSE
  /\ corpus = "none"
  /\ words = <<>>
  /\ stop_words = {}
  /\ word_counts = <<>>
  /\ topPc = "idle"
  /\ topResult = Pending

WordsStart ==
  /\ texts \in TextsInputs
  /\ n \in 0..MaxN
  /\ tech_only \in BOOLEAN
  /\ corpus \in {"available", "lookup_error"}
  /\ words = <<>>
  /\ stop_words = {}
  /\ word_counts = <<>>
  /\ topPc = "call"
  /\ topResult = Pending

GetTopWords ==
  /\ topPc = "call"
  /\ LET r == get_top_words(texts, n, tech_only, corpus) IN
       /\ topResult' = r.outcome
       /\ words' = r.words
       /\ stop_words' = r.stop_words
       /\ word_counts' = r.word_counts
  /\ topPc' = "done"
  /\ UNCHANGED <<texts, n, tech_only, corpus, notWordsVars>>

NextWords == GetTopWords

(***************************************************************************)
(* validate_dataframe, create_time_series_plot, create_category_plot       *)
(***************************************************************************)
\* The largest day of January 2023 a chart argument carries, and the
\* largest number of its rows.
MaxDay == 3
MaxChartRows == 3

\* A date-time of the chart arguments: a day of January 2023 at the first
\* or the last hour of the day.
ChartStamps ==
  {[nat |-> FALSE, date |-> <<2023, 1, d>>, hour |-> h] :
      d \in 1..MaxDay, h \in {0, 23}}

\* The rows of the argument of create_time_series_plot and of
\* create_category_plot.
TimeSeriesRows == [tweeted_at : ChartStamps, category : {TECHNOLOGY}]

CategoryRows ==
  [tweeted_at : {[nat |-> FALSE, date |-> <<2023, 1, 1>>, hour |-> 0]},
   category : {TECHNOLOGY, OTHER_LABEL}]

\* The column sets of the arguments: the two columns the builders look
\* for, one of them, and the wrong_column of tests/test_visualizations.py.
ChartColumnSets ==
  {{"tweeted_at", "category"}, {"tweeted_at"}, {"category"}, {"wrong_column"}}

\* The arguments: DataFrames, a DataFrame whose tweeted_at column was never
\* converted (dtype object), and values that are no DataFrame.
ChartFrames(rowSet) ==
  {[type |-> "DataFrame", columns |-> c, dtype |-> "datetime64[ns]", rows |-> r] :
      c \in ChartColumnSets, r \in SeqsUpTo(rowSet, MaxChartRows)}
  \cup
  {[type |-> "DataFrame", columns |-> {"tweeted_at", "category"},
    dtype |-> "object", rows |-> r] : r \in SeqsUpTo(rowSet, 1)}
  \cup
  {[type |-> t, columns |-> {}, dtype |-> "object", rows |-> <<>>] :
      t \in {"dict", "NoneType"}}

\* if not isinstance(df, pd.DataFrame): raise TypeError
\* if missing_columns: raise ValueError naming them
validate_dataframe(frame, required_columns) ==
  IF frame.type # "DataFrame"
  THEN Raised("TypeError", [text |-> "not_dataframe", cols |-> <<>>])
  ELSE LET missing_columns ==
             SelectSeq(required_columns, LAMBDA col : col \notin frame.columns)
       IN IF missing_columns # <<>>
          THEN Raised("ValueError",
                      [text |-> "missing_columns", cols |-> missing_columns])
          ELSE Pending

\* The hours from the start of January 2023 to a date-time.
Hours(stamp) == (stamp.date[3] - 1) * 24 + stamp.hour

\* The rows that carry a date-time: a grouping by time leaves NaT out.
Stamped(rows) == SelectSeq(rows, LAMBDA r : ~r.tweeted_at.nat)

\* Daily bins that start at the earliest date-time instead of at midnight.
DailyCountsFromFirst(rows) ==
  LET stamped == Stamped(rows)
      hours   == {Hours(stamped[i].tweeted_at) : i \in DOMAIN stamped}
  IN IF stamped = <<>> THEN <<>>
     ELSE LET start == CHOOSE h \in hours : \A g \in hours : h <= g
              bins  == {(h - start) \div 24 : h \in hours}
              last  == CHOOSE b \in bins : \A c \in bins : c <= b
          IN [k \in 1..(last + 1) |->
                [date  |-> <<2023, 1, (start \div 24) + k>>,
                 count |-> Cardinality(
                   {i \in DOMAIN stamped :
                      (Hours(stamped[i].tweeted_at) - start) \div 24 = k - 1})]]

\* df.resample("D", on="tweeted_at").size().reset_index(): one row for every
\* calendar day from the first day to the last, a day without records
\* included, with the number of records of that day.
DailyCounts(rows) ==
  LET stamped == Stamped(rows)
      days    == {Hours(stamped[i].tweeted_at) \div 24 : i \in DOMAIN stamped}
  IN IF stamped = <<>> THEN <<>>
     ELSE LET first == CHOOSE d \in days : \A e \in days : d <= e
              last  == CHOOSE d \in days : \A e \in days : e <= d
          IN [k \in 1..(last - first + 1) |->
                [date  |-> <<2023, 1, first + k>>,
                 count |-> Cardinality(
                   {i \in DOMAIN stamped :
                      Hours(stamped[i].tweeted_at) \div 24 = first + k - 1})]]

\* df["category"].value_counts(): the distinct values with their numbers,
\* the largest number first.
ValueCounts(rows) ==
  SortByCount(CounterOf([i \in DOMAIN rows |-> rows[i].category], <<>>))

\* The exception a library call of the body raises: chartFault, the class
\* of it, or "none".
FaultMessage == [text |-> "library_failure", cols |-> <<>>]

LibraryFaults == {"none", "TypeError", "ValueError", "KeyError"}

\* The body of create_time_series_plot after the validation: resample
\* accepts a datetime column alone (TypeError otherwise).
TimeSeriesBody(frame, fault) ==
  IF frame.dtype # "datetime64[ns]"
  THEN Raised("TypeError", [text |-> "resample_needs_datetime", cols |-> <<>>])
  ELSE IF fault # "none"
       THEN Raised(fault, FaultMessage)
       ELSE Returned([fig |-> "line", x |-> "date", y |-> "count",
                      data |-> DailyCounts(frame.rows)])

\* The body of create_category_plot after the validation.
CategoryBody(frame, fault) ==
  IF fault # "none"
  THEN Raised(fault, FaultMessage)
  ELSE Returned([fig |-> "pie", x |-> "names", y |-> "values",
                 data |-> ValueCounts(frame.rows)])

\* raise ValueError(f"...: {e!s}"): a ValueError whose message holds the
\* message of the exception caught.
Wrapped(text, e) ==
  Raised("ValueError", [text |-> text, cols |-> <<>>, cause |-> e.msg.text])

\* The except clauses of create_time_series_plot, tried in order on an
\* exception e of the try block.  The name pd.errors.ResampleError is
\* looked up only when e has passed the first clause; where pandas.errors
\* has no such name (defined = FALSE) the lookup raises AttributeError,
\* which leaves the function.
ExceptTimeSeries(e, defined) ==
  IF IsInstance(e, "TypeError") \/ IsInstance(e, "ValueError")
  THEN e
  ELSE IF ~defined
       THEN Raised("AttributeError", [text |-> "ResampleError", cols |-> <<>>])
       ELSE IF IsInstance(e, "ResampleError")
            THEN Wrapped("resample_failed", e)
            ELSE Wrapped("unexpected", e)

\* The except clauses of create_category_plot.
ExceptCategory(e) ==
  IF IsInstance(e, "TypeError") \/ IsInstance(e, "ValueError")
  THEN e
  ELSE Wrapped("unexpected", e)

create_time_series_plot(frame, fault, defined) ==
  LET v == validate_dataframe(frame, <<"tweeted_at">>) IN
  IF v.kind = "raise"
  THEN ExceptTimeSeries(v, defined)
  ELSE LET r == TimeSeriesBody(frame, fault) IN
       IF r.kind = "raise" THEN ExceptTimeSeries(r, defined) ELSE r

create_category_plot(frame, fault) ==
  LET v == validate_dataframe(frame, <<"category">>) IN
  IF v.kind = "raise"
  THEN ExceptCategory(v)
  ELSE LET r == CategoryBody(frame, fault) IN
       IF r.kind = "raise" THEN ExceptCategory(r) ELSE r

NoFrame == [type |-> "none", columns |-> {}, dtype |-> "object", rows |-> <<>>]

\* No call of a chart builder is under way.
ChartIdle ==
  /\ chartFn = "none"
  /\ chartDf = NoFrame
  /\ chartFault = "none"
  /\ hasResampleError = FALSE
  /\ chartPc = "idle"
  /\ chartResult = Pending

ChartStart ==
  /\ chartFn \in {"create_time_series_plot", "create_category_plot"}
  /\ chartDf \in IF chartFn = "create_time_series_plot"
                 THEN ChartFrames(TimeSeriesRows)
                 ELSE ChartFrames(CategoryRows)
  /\ hasResampleError \in BOOLEAN
  /\ chartFault \in LibraryFaults
                      \cup (IF hasResampleError THEN {"ResampleError"} ELSE {})
  /\ chartPc = "call"
  /\ chartResult = Pending

CreateTimeSeriesPlot ==
  /\ chartPc = "call"
  /\ chartFn = "create_time_series_plot"
  /\ chartResult' = create_time_series_plot(chartDf, chartFault, hasResampleError)
  /\ chartPc' = "done"
  /\ UNCHANGED <<chartFn, chartDf, chartFault, hasResampleError, notChartVars>>

CreateCategoryPlot ==
  /\ chartPc = "call"
  /\ chartFn = "create_category_plot"
  /\ chartResult' = create_category_plot(chartDf, chartFault)
  /\ chartPc' = "done"
  /\ UNCHANGED <<chartFn, chartDf, chartFault, hasResampleError, notChartVars>>

NextCharts == CreateTimeSeriesPlot \/ CreateCategoryPlot

(***************************************************************************)
(* main                                                                    *)
(***************************************************************************)
\* n: int = 50, the default main leaves in place.
DefaultN == 50

\* The full_text cells of the files of main: the two texts of
\* tests/test_app.py.
MainTexts ==
  {
    <<"P", "y", "t", "h", "o", "n", "U+30D7", "U+30ED", "U+30B0", "U+30E9", "U+30DF", "U+30F3", "U+30B0">>,
    <<"U+4ECA", "U+65E5", "U+306E", "U+5929", "U+6C17">>
  }

MainRows ==
  [tweeted_at : TimestampCells, screen_name : {"user1"},
   full_text : MainTexts, category : {CsvLabel}, malformed : BOOLEAN]

\* The headers of the files of main: the required columns, with and
\* without a category column, and the header of tests/test_app.py that
\* lacks full_text.
MainHeaders ==
  {Range(REQUIRED_COLUMNS), Range(REQUIRED_COLUMNS) \cup {"category"},
   {"tweeted_at", "screen_name"}}

\* The resources data_path may name.
MainFiles ==
  {[kind |-> k, header |-> {}, rows |-> <<>>] :
      k \in {"missing", "unreadable", "empty"}}
  \cup
  {[kind |-> "csv", header |-> h, rows |-> r] :
      h \in MainHeaders, r \in SeqsUpTo(MainRows, MaxRows)}

\* load_data: its three try blocks in order.
load_data(f) ==
  LET h == HeaderCheck(f) IN
  IF h.kind = "raise" THEN h
  ELSE LET r == FullRead(f) IN
       IF r.kind = "raise" THEN r ELSE ConvertTimestamps(r.value)

\* The except clauses around load_data without the last one.
ExceptLoadNoCatchAll(e) ==
  IF IsInstance(e, "FileNotFoundError") THEN "FileNotFoundError"
  ELSE IF IsInstance(e, "ParserError") THEN "ParserError"
  ELSE IF IsInstance(e, "EmptyDataError") THEN "EmptyDataError"
  ELSE "none"

\* The except clauses around load_data, tried in order: the clause that
\* catches e, "none" if none does.
ExceptLoad(e) ==
  IF IsInstance(e, "FileNotFoundError") THEN "FileNotFoundError"
  ELSE IF IsInstance(e, "ParserError") THEN "ParserError"
  ELSE IF IsInstance(e, "EmptyDataError") THEN "EmptyDataError"
  ELSE IF IsInstance(e, "Exception") THEN "Exception"
  ELSE "none"

\* The labels categorize_tech gives the full_text of the rows.
Labels(table) ==
  [i \in DOMAIN table.rows |-> categorize_tech(Str(table.rows[i].full_text))]

\* The assignment made only where the table has no category column yet.
ApplyCategorizeIfAbsent(table) ==
  IF "category" \in table.columns THEN Returned(table)
  ELSE Returned([table EXCEPT
         !.columns = @ \cup {"category"},
         !.rows = [i \in DOMAIN table.rows |->
                     [table.rows[i] EXCEPT !.category = Labels(table)[i].value]]])

\* bookmark_df["category"] = bookmark_df["full_text"].apply(categorize_tech):
\* the column is made, or replaced, from full_text.
ApplyCategorize(table) ==
  IF \E i \in DOMAIN table.rows : Labels(table)[i].kind = "raise"
  THEN LET i == CHOOSE i \in DOMAIN table.rows : Labels(table)[i].kind = "raise"
       IN Labels(table)[i]
  ELSE Returned([table EXCEPT
         !.columns = @ \cup {"category"},
         !.rows = [i \in DOMAIN table.rows |->
                     [table.rows[i] EXCEPT !.category = Labels(table)[i].value]]])

\* The days of January 2023 the non-null tweeted_at values lie on.
StampedDays(table) ==
  {table.rows[i].tweeted_at.date[3] :
      i \in {j \in DOMAIN table.rows : ~table.rows[j].tweeted_at.nat}}

\* What st.sidebar.date_input returns: a first and a last date between
\* min_value and max_value; no date where min() and max() are NaT.
DateRanges(table) ==
  LET days == StampedDays(table) IN
  IF days = {} THEN {<<>>}
  ELSE LET lo == CHOOSE d \in days : \A e \in days : d <= e
           hi == CHOOSE d \in days : \A e \in days : e <= d
       IN {<<<<2023, 1, r[1]>>, <<2023, 1, r[2]>>>> :
             r \in {q \in (lo..hi) \X (lo..hi) : q[1] <= q[2]}}

\* a <= b for dates <<year, month, day>>.
DateLeq(a, b) ==
  \/ a[1] < b[1]
  \/ a[1] = b[1] /\ a[2] < b[2]
  \/ a[1] = b[1] /\ a[2] = b[2] /\ a[3] <= b[3]

\* bookmark_df["category"].unique()
UniqueCategories(table) == {table.rows[i].category : i \in DOMAIN table.rows}

\* mask: a comparison with a null date is False.
Mask(row, range, selected) ==
  /\ range # <<>>
  /\ ~row.tweeted_at.nat
  /\ DateLeq(range[1], row.tweeted_at.date)
  /\ DateLeq(row.tweeted_at.date, range[2])
  /\ row.category \in selected

\* filtered_df = bookmark_df[mask]
Filter(table, range, selected) ==
  [table EXCEPT !.rows = SelectSeq(@, LAMBDA row : Mask(row, range, selected))]

\* The three st.metric values.
Metrics(table) ==
  [total |-> Len(table.rows),
   technology |-> Cardinality({i \in DOMAIN table.rows :
                                 table.rows[i].category = TECHNOLOGY}),
   users |-> Cardinality({table.rows[i].screen_name : i \in DOMAIN table.rows})]

\* The table as the argument of a chart builder.
Frame(table) ==
  [type |-> "DataFrame", columns |-> table.columns, dtype |-> table.dtype,
   rows |-> table.rows]

\* filtered_df["full_text"]
FullTextSeries(table) ==
  [type |-> "Series",
   items |-> [i \in DOMAIN table.rows |-> Str(table.rows[i].full_text)]]

\* The stages of main in the order of the code.
StageOrder ==
  <<"load", "classify", "date_input", "filter", "time_series", "category",
    "words", "raw">>

\* An analysis stage whose except clause returns from main.
AfterStageReturnsOnFailure(stage, outcome) ==
  IF outcome.kind = "raise" THEN "returned"
  ELSE CASE stage = "time_series" -> "category"
         [] stage = "category"    -> "words"
         [] stage = "words"       -> "raw"

\* Where main goes on after an analysis stage: its except clause reports
\* and falls through to the next stage.
AfterStage(stage, outcome) ==
  CASE stage = "time_series" -> "category"
    [] stage = "category"    -> "words"
    [] stage = "words"       -> "raw"

\* No run of main is under way.
MainIdle ==
  /\ data_path = NoFile
  /\ mainPc = "idle"
  /\ main_df = NoTable
  /\ date_range = <<>>
  /\ selected_categories = {}
  /\ filtered_df = NoTable
  /\ metrics = [total |-> 0, technology |-> 0, users |-> 0]
  /\ failures = <<>>
  /\ reports = <<>>
  /\ shown = <<>>
  /\ stages = <<>>
  /\ mainResult = Pending

MainStart ==
  /\ data_path \in MainFiles
  /\ mainPc = "load"
  /\ main_df = NoTable
  /\ date_range = <<>>
  /\ selected_categories = {}
  /\ filtered_df = NoTable
  /\ metrics = [total |-> 0, technology |-> 0, users |-> 0]
  /\ failures = <<>>
  /\ reports = <<>>
  /\ shown = <<>>
  /\ stages = <<>>
  /\ mainResult = Pending

\* Lines 35-62: load_data and its except clauses.
MainLoad ==
  /\ mainPc = "load"
  /\ stages' = Append(stages, "load")
  /\ LET r == load_data(data_path) IN
       IF r.kind = "raise"
       THEN /\ failures' = Append(failures, "load")
            /\ IF ExceptLoad(r) = "none"
               THEN /\ mainResult' = r
                    /\ UNCHANGED reports
               ELSE /\ mainResult' = Returned(None)
                    /\ reports' = Append(reports,
                                    [stage |-> "load", clause |-> ExceptLoad(r)])
            /\ mainPc' = "returned"
            /\ UNCHANGED main_df
       ELSE /\ main_df' = r.value
            /\ mainPc' = "classify"
            /\ UNCHANGED <<failures, reports, mainResult>>
  /\ UNCHANGED <<data_path, date_range, selected_categories, filtered_df,
                 metrics, shown, notMainVars>>

\* Lines 64-71: the category column is computed.
MainClassify ==
  /\ mainPc = "classify"
  /\ stages' = Append(stages, "classify")
  /\ LET r == ApplyCategorize(main_df) IN
       IF r.kind = "raise"
       THEN /\ failures' = Append(failures, "classify")
            /\ reports' = Append(reports,
                            [stage |-> "classify", clause |-> "Exception"])
            /\ mainResult' = Returned(None)
            /\ mainPc' = "returned"
            /\ UNCHANGED main_df
       ELSE /\ main_df' = r.value
            /\ mainPc' = "date_input"
            /\ UNCHANGED <<failures, reports, mainResult>>
  /\ UNCHANGED <<data_path, date_range, selected_categories, filtered_df,
                 metrics, shown, notMainVars>>

\* Lines 73-87: the date range of the sidebar; the widget returns a range
\* or raises.
MainDateInput ==
  /\ mainPc = "date_input"
  /\ stages' = Append(stages, "date_input")
  /\ \/ /\ failures' = Append(failures, "date_input")
        /\ reports' = Append(reports,
                        [stage |-> "date_input", clause |-> "Exception"])
        /\ mainResult' = Returned(None)
        /\ mainPc' = "returned"
        /\ UNCHANGED date_range
     \/ /\ date_range' \in DateRanges(main_df)
        /\ mainPc' = "filter"
        /\ UNCHANGED <<failures, reports, mainResult>>
  /\ UNCHANGED <<data_path, main_df, selected_categories, filtered_df,
                 metrics, shown, notMainVars>>

\* Lines 89-111: the category selection, the mask and the metrics.
MainFilter ==
  /\ mainPc = "filter"
  /\ stages' = Append(stages, "filter")
  /\ selected_categories' \in SUBSET UniqueCategories(main_df)
  /\ filtered_df' = Filter(main_df, date_range, selected_categories')
  /\ metrics' = Metrics(filtered_df')
  /\ mainPc' = "time_series"
  /\ UNCHANGED <<data_path, main_df, date_range, failures, reports, shown,
                 mainResult, notMainVars>>

\* What an analysis stage leaves behind: the chart shown, or the failure
\* and its report.
StageEnds(stage, r) ==
  /\ stages' = Append(stages, stage)
  /\ IF r.kind = "raise"
     THEN /\ failures' = Append(failures, stage)
          /\ reports' = Append(reports, [stage |-> stage, clause |-> "Exception"])
          /\ UNCHANGED shown
     ELSE /\ shown' = Append(shown, [stage |-> stage, chart |-> r.value])
          /\ UNCHANGED <<failures, reports>>
  /\ mainPc' = AfterStage(stage, r)
  /\ mainResult' = IF mainPc' = "returned" THEN Returned(None) ELSE mainResult
  /\ UNCHANGED <<data_path, main_df, date_range, selected_categories,
                 filtered_df, metrics, notMainVars>>

\* Lines 113-121
MainTimeSeries ==
  /\ mainPc = "time_series"
  /\ \E fault \in LibraryFaults, defined \in BOOLEAN :
       StageEnds("time_series",
                 create_time_series_plot(Frame(filtered_df), fault, defined))

\* Lines 123-131
MainCategory ==
  /\ mainPc = "category"
  /\ \E fault \in LibraryFaults :
       StageEnds("category", create_category_plot(Frame(filtered_df), fault))

\* Lines 133-145: the checkbox, get_top_words and the bar chart.
MainWords ==
  /\ mainPc = "words"
  /\ \E tech \in BOOLEAN, c \in {"available", "lookup_error"} :
       LET r == get_top_words(FullTextSeries(filtered_df), DefaultN, tech, c).outcome
       IN StageEnds("words",
                    IF r.kind = "raise" THEN r
                    ELSE Returned([fig |-> "bar", tech_only |-> tech,
                                   data |-> r.value]))

\* Lines 147-149: the raw data, if asked for, and the end of main.
MainRawData ==
  /\ mainPc = "raw"
  /\ stages' = Append(stages, "raw")
  /\ \E show \in BOOLEAN :
       shown' = IF show
                THEN Append(shown, [stage |-> "raw", chart |-> filtered_df.rows])
                ELSE shown
  /\ mainResult' = Returned(None)
  /\ mainPc' = "returned"
  /\ UNCHANGED <<data_path, main_df, date_range, selected_categories,
                 filtered_df, metrics, failures, reports, notMainVars>>

NextMain ==
  \/ MainLoad
  \/ MainClassify
  \/ MainDateInput
  \/ MainFilter
  \/ MainTimeSeries
  \/ MainCategory
  \/ MainWords
  \/ MainRawData

InitWords == WordsStart /\ LoadIdle /\ ClassifyIdle /\ ChartIdle /\ MainIdle

SpecWords == InitWords /\ [][NextWords]_vars

InitLoad == LoadStart /\ ClassifyIdle /\ WordsIdle /\ ChartIdle /\ MainIdle

InitClassify == ClassifyStart /\ LoadIdle /\ WordsIdle /\ ChartIdle /\ MainIdle

SpecClassify == InitClassify /\ [][NextClassify]_vars

SpecLoad == InitLoad /\ [][NextLoad]_vars

InitCharts == ChartStart /\ LoadIdle /\ ClassifyIdle /\ WordsIdle /\ MainIdle

SpecCharts == InitCharts /\ [][NextCharts]_vars

InitMain == MainStart /\ LoadIdle /\ ClassifyIdle /\ WordsIdle /\ ChartIdle

SpecMain == InitMain /\ [][NextMain]_vars


(***************************************************************************)
(* Properties of load_data                                                 *)
(***************************************************************************)
LacksRequired(f) == f.kind = "csv" /\ ~(Range(REQUIRED_COLUMNS) \subseteq f.header)

ValidCsv(f) ==
  /\ f.kind = "csv"
  /\ Range(REQUIRED_COLUMNS) \subseteq f.header
  /\ \A i \in DOMAIN f.rows :
       ~f.rows[i].malformed /\ Parseable(f.rows[i].tweeted_at)

\* C1: a finished load_data has raised FileNotFoundError for a missing
\* path, EmptyDataError for a zero-byte file and, for a CSV whose header
\* lacks a required column, a ValueError-kind error whose message names
\* exactly the missing columns; in none of these cases is there ever a
\* returned table.
C1_ErrorKinds ==
  /\ (file.kind \in {"missing", "empty"} \/ LacksRequired(file))
        => loadResult.kind # "return"
  /\ loadPc = "done" =>
       /\ file.kind = "missing" =>
            loadResult.kind = "raise" /\ loadResult.type = "FileNotFoundError"
       /\ file.kind = "empty" =>
            loadResult.kind = "raise" /\ loadResult.type = "EmptyDataError"
       /\ LacksRequired(file) =>
            /\ IsInstance(loadResult, "ValueError")
            /\ loadResult.msg.text = "missing_columns"
            /\ Range(loadResult.msg.cols) = Range(REQUIRED_COLUMNS) \ file.header

C1_Witness ==
  /\ loadPc = "done"
  /\ file.kind = "csv"
  /\ file.header = {"tweeted_at", "screen_name"}
  /\ Len(file.rows) = 1
  /\ loadResult.kind = "raise"
  /\ loadResult.msg.cols = <<"full_text">>

\* C2: the full read never happens before the header read, and for a CSV
\* that lacks a required column it never happens at all: the call ends
\* after the header read with the missing-column error, whatever the data
\* rows hold.
C2_HeaderBeforeData ==
  /\ \A i \in DOMAIN loadReads :
       loadReads[i] = "full" => i > 1 /\ loadReads[1] = "header"
  /\ bookmark_df # NoTable => "full" \in Range(loadReads)
  /\ LacksRequired(file) =>
       /\ "full" \notin Range(loadReads)
       /\ bookmark_df = NoTable
       /\ loadPc \in {"header", "done"}
       /\ loadPc = "done" =>
            loadResult = Raised("ParserError",
                                [text |-> "missing_columns",
                                 cols |-> MissingColumns(file.header)])

C2_Witness ==
  /\ loadPc = "done"
  /\ LacksRequired(file)
  /\ \E i \in DOMAIN file.rows : file.rows[i].malformed
  /\ \E i \in DOMAIN file.rows : file.rows[i].tweeted_at = "invalid_datetime"
  /\ loadReads = <<"header">>
  /\ loadResult.kind = "raise"
  /\ loadResult.msg.text = "missing_columns"

\* C3 (the claim as stated): every record of a returned table has a
\* timestamp that is not null, and a file with the required columns and
\* well-formed rows of which one has a missing or unparseable tweeted_at
\* ends in the timestamp ValueError.
C3_NonNullTimestamps ==
  /\ loadResult.kind = "return" =>
       \A i \in DOMAIN loadResult.value.rows :
          loadResult.value.rows[i].tweeted_at # NaT
  /\ ( /\ loadPc = "done"
       /\ file.kind = "csv"
       /\ ~LacksRequired(file)
       /\ \A i \in DOMAIN file.rows : ~file.rows[i].malformed
       /\ \E i \in DOMAIN file.rows : ~Parseable(file.rows[i].tweeted_at) )
     => loadResult = Raised("ValueError",
                            [text |-> "datetime_conversion", cols |-> <<>>])

\* C4: for a valid CSV with the required columns a finished load_data has
\* returned one record per data row, in file order, with the required
\* columns and tweeted_at typed as a date-time.
C4_ValidLoad ==
  (loadPc = "done" /\ ValidCsv(file)) =>
    /\ loadResult.kind = "return"
    /\ Len(loadResult.value.rows) = Len(file.rows)
    /\ Range(REQUIRED_COLUMNS) \subseteq loadResult.value.columns
    /\ loadResult.value.dtype = "datetime64[ns]"
    /\ \A i \in DOMAIN file.rows :
         LET rec == loadResult.value.rows[i] IN
         /\ rec.screen_name = file.rows[i].screen_name
         /\ rec.full_text = file.rows[i].full_text
         /\ rec.tweeted_at.nat = FALSE
         /\ rec.tweeted_at.date[3] = (IF file.rows[i].tweeted_at = "2023-01-01 12:00:00"
                                      THEN 1 ELSE 2)

C4_Witness ==
  /\ loadPc = "done"
  /\ ValidCsv(file)
  /\ Len(file.rows) = 2
  /\ file.rows[1].tweeted_at = "2023-01-02 12:00:00"
  /\ file.rows[2].tweeted_at = "2023-01-01 12:00:00"
  /\ file.rows[1].screen_name # file.rows[2].screen_name
  /\ loadResult.kind = "return"
  /\ Len(loadResult.value.rows) = 2


(***************************************************************************)
(* Properties of categorize_tech                                           *)
(***************************************************************************)
\* The characters that lower-case to c.
CaseVariants(c) == {c} \cup {p[1] : p \in {q \in LowerPairs : q[2] = c}}

\* Keyword k is in s at offset o, the case of the letters of s ignored.
OccursAt(s, k, o) ==
  /\ o + Len(k) - 1 <= Len(s)
  /\ \A j \in 1..Len(k) : s[o + j - 1] \in CaseVariants(k[j])

\* C5: categorize_tech returns for every argument, raising nothing, and
\* returns the technology label exactly when the argument is a string in
\* which some keyword occurs, case ignored; for every other argument (a
\* value that is no string, the empty string, a string with no keyword) it
\* returns the other label.
C5_Classifier ==
  catPc = "done" =>
    /\ catResult.kind = "return"
    /\ catResult.value \in {TECHNOLOGY, OTHER_LABEL}
    /\ catResult.value = TECHNOLOGY <=>
         /\ catInput.type = "str"
         /\ \E k \in DOMAIN TECH_KEYWORDS :
              \E o \in 1..Len(catInput.chars) :
                 OccursAt(catInput.chars, TECH_KEYWORDS[k], o)

C5_Witness ==
  /\ catPc = "done"
  /\ catInput = Str(<<"x", "I", "T">>)
  /\ catResult = Returned(TECHNOLOGY)


(***************************************************************************)
(* Properties of get_top_words                                             *)
(***************************************************************************)
TopReturned == topPc = "done" /\ topResult.kind = "return"

\* The words of the returned mapping, in its order.
ResultWords == {topResult.value[i][1] : i \in DOMAIN topResult.value}

\* How often w is among the tokens.
Occurrences(w) == Cardinality({j \in DOMAIN words : words[j] = w})

PurelyNumeric(w) == w # <<>> /\ ~(\E i \in DOMAIN w : w[i] \notin DigitChars)

\* Every entry is null or holds whitespace alone: no usable text.
NoUsableText(items) ==
  \A i \in DOMAIN items :
     \/ items[i].type # "str"
     \/ \A j \in DOMAIN items[i].chars : items[i].chars[j] \in SpaceChars

\* C6: a finished get_top_words has raised TypeError when texts is neither
\* a list nor a Series, whatever its length; it has raised ValueError when
\* texts is an empty list or Series or one whose entries are all null or
\* blank; in these cases nothing was tokenized or counted and no mapping
\* was returned.
C6_RejectsUnusableInput ==
  topPc = "done" =>
    /\ texts.type \notin {"list", "Series"} =>
         /\ topResult.kind = "raise" /\ topResult.type = "TypeError"
         /\ words = <<>> /\ word_counts = <<>>
    /\ (texts.type \in {"list", "Series"} /\ NoUsableText(texts.items)) =>
         /\ topResult.kind = "raise" /\ topResult.type = "ValueError"
         /\ words = <<>> /\ word_counts = <<>>

C6_Witness ==
  /\ topPc = "done"
  /\ texts.type = "Series"
  /\ Len(texts.items) = 2
  /\ texts.items[1] = None
  /\ texts.items[2] = Str(<<" ", " ">>)
  /\ topResult.kind = "raise"
  /\ topResult.type = "ValueError"

\* C7: the returned mapping has at most n entries, no word twice; every
\* count is at least 1 and is the number of occurrences of the word among
\* the tokens; the counts descend; and no counted word that was left out
\* has a larger count than a word of the mapping.
C7_TopN ==
  TopReturned =>
    LET r == topResult.value IN
    /\ Len(r) <= n
    /\ \A i, j \in DOMAIN r : r[i][1] = r[j][1] => i = j
    /\ \A i \in DOMAIN r : r[i][2] >= 1 /\ r[i][2] = Occurrences(r[i][1])
    /\ \A i, j \in DOMAIN r : i < j => r[i][2] >= r[j][2]
    /\ \A k \in DOMAIN word_counts :
         word_counts[k][1] \notin ResultWords =>
           \A i \in DOMAIN r : word_counts[k][2] <= r[i][2]

C7_Witness ==
  /\ TopReturned
  /\ n = 1
  /\ Len(word_counts) = 3
  /\ word_counts[1][2] = 1
  /\ word_counts[2][2] = 2
  /\ topResult.value = <<word_counts[2]>>

\* C8: with tech_only every word of the returned mapping is in the
\* technology vocabulary, is longer than one character and is not purely
\* numeric; and every token with these three properties is counted, with
\* all its occurrences, and is in the mapping when the mapping has room.
C8_TechOnly ==
  (TopReturned /\ tech_only) =>
    /\ \A w \in ResultWords :
         w \in tech_words /\ Len(w) > 1 /\ ~PurelyNumeric(w)
    /\ \A j \in DOMAIN words :
         (words[j] \in tech_words /\ Len(words[j]) > 1 /\ ~PurelyNumeric(words[j]))
           => /\ \E k \in DOMAIN word_counts :
                   word_counts[k] = <<words[j], Occurrences(words[j])>>
              /\ Len(topResult.value) < n => words[j] \in ResultWords

C8_Witness ==
  /\ TopReturned
  /\ tech_only
  /\ Len(topResult.value) = 2
  /\ \E j \in DOMAIN words : words[j] \notin tech_words
  /\ \E j \in DOMAIN words : PurelyNumeric(words[j])

\* C9: without tech_only every word of the returned mapping has a
\* lower-cased form outside the stop words, is longer than one character,
\* is not purely numeric and has a character that is not ASCII.
C9_GeneralMode ==
  (TopReturned /\ ~tech_only) =>
    /\ TwitterStopWords \subseteq stop_words
    /\ \A w \in ResultWords :
         /\ StrLower(w) \notin stop_words
         /\ Len(w) > 1
         /\ ~PurelyNumeric(w)
         /\ \E i \in DOMAIN w : w[i] \notin AsciiChars

C9_Witness ==
  /\ TopReturned
  /\ ~tech_only
  /\ Len(topResult.value) >= 1
  /\ \E j \in DOMAIN words :
        /\ \A i \in DOMAIN words[j] : words[j][i] \in AsciiChars
        /\ Len(words[j]) > 1
        /\ ~PurelyNumeric(words[j])
        /\ StrLower(words[j]) \notin stop_words
  /\ \E j \in DOMAIN words : Len(words[j]) = 1

\* C10 (the claim as stated): in both modes no word whose lower-cased form
\* is a stop word is a key of the returned mapping.
C10_StopWordsExcludedInBothModes ==
  TopReturned => \A w \in ResultWords : StrLower(w) \notin stop_words

\* C10 (amended): without tech_only no word whose lower-cased form is a
\* stop word is a key of the returned mapping; with tech_only the stop
\* words are not looked at, and a token of the technology vocabulary is
\* counted also when its lower-cased form is a stop word.
C10_StopWordsByMode ==
  TopReturned =>
    /\ TwitterStopWords \subseteq stop_words
    /\ corpus = "available" => NltkJapanese \subseteq stop_words
    /\ ~tech_only => \A w \in ResultWords : StrLower(w) \notin stop_words
    /\ tech_only =>
         \A j \in DOMAIN words :
            (words[j] \in tech_words /\ StrLower(words[j]) \in stop_words)
              => \E k \in DOMAIN word_counts : word_counts[k][1] = words[j]

C10_Witness ==
  /\ TopReturned
  /\ tech_only
  /\ \E w \in ResultWords : StrLower(w) \in stop_words

(***************************************************************************)
(* Properties of the chart builders                                        *)
(***************************************************************************)
\* The column a builder requires.
RequiredColumn(fn) ==
  IF fn = "create_time_series_plot" THEN "tweeted_at" ELSE "category"

\* The message an exception carries: its own, or the one it wraps.
OriginalMessage(outcome) ==
  IF "cause" \in DOMAIN outcome.msg THEN outcome.msg.cause ELSE outcome.msg.text

\* The argument passes validate_dataframe and a call of the body fails.
InternalFailure ==
  /\ chartDf.type = "DataFrame"
  /\ RequiredColumn(chartFn) \in chartDf.columns
  /\ \/ chartFault # "none"
     \/ chartFn = "create_time_series_plot" /\ chartDf.dtype # "datetime64[ns]"

\* C11: a finished chart builder has raised a TypeError for an argument
\* that is no DataFrame, a ValueError naming the column for a DataFrame
\* without the required column, and for every other failure inside the
\* builder a ValueError that carries the original message; after a failure
\* no chart is returned.
C11_ChartFailures ==
  chartPc = "done" =>
    /\ chartDf.type # "DataFrame" =>
         IsInstance(chartResult, "TypeError")
    /\ (chartDf.type = "DataFrame"
          /\ RequiredColumn(chartFn) \notin chartDf.columns) =>
         /\ IsInstance(chartResult, "ValueError")
         /\ chartResult.msg.cols = <<RequiredColumn(chartFn)>>
    /\ InternalFailure =>
         /\ IsInstance(chartResult, "ValueError")
         /\ OriginalMessage(chartResult)
              \in {"library_failure", "resample_needs_datetime"}

RECURSIVE SumCounts(_)
SumCounts(data) ==
  IF data = <<>> THEN 0 ELSE data[1].count + SumCounts(Tail(data))

\* The records lie on as many consecutive calendar days as there are
\* records.
OnConsecutiveDays(rows) ==
  /\ rows # <<>>
  /\ \A i \in 1..(Len(rows) - 1) :
       rows[i + 1].tweeted_at.date[3] = rows[i].tweeted_at.date[3] + 1

\* C12: the series create_time_series_plot returns has one point a day,
\* the count of a point is the number of records of the argument whose
\* tweeted_at lies on that calendar day, the counts add up to the number of
\* records, and n records on n consecutive days give n points.
C12_DailyBuckets ==
  (chartPc = "done" /\ chartFn = "create_time_series_plot"
     /\ chartResult.kind = "return") =>
    LET data == chartResult.value.data
        rows == chartDf.rows
    IN /\ \A k \in DOMAIN data :
            data[k].count =
              Cardinality({i \in DOMAIN rows :
                             rows[i].tweeted_at.date = data[k].date})
       /\ \A k \in DOMAIN data : \A m \in DOMAIN data :
            k # m => data[k].date # data[m].date
       /\ SumCounts(data) = Len(rows)
       /\ OnConsecutiveDays(rows) => Len(data) = Len(rows)

\* A series was returned for records on consecutive days, one at the last
\* hour of its day and the next at the first hour of the following day.
C12_Witness ==
  /\ chartPc = "done"
  /\ chartFn = "create_time_series_plot"
  /\ chartResult.kind = "return"
  /\ Len(chartDf.rows) >= 2
  /\ OnConsecutiveDays(chartDf.rows)
  /\ chartDf.rows[1].tweeted_at.hour = 23
  /\ chartDf.rows[2].tweeted_at.hour = 0
  /\ Len(chartResult.value.data) = Len(chartDf.rows)

(***************************************************************************)
(* Properties of main                                                      *)
(***************************************************************************)
\* The stages after the classification that are handed records.
LaterStages == {"date_input", "filter", "time_series", "category", "words", "raw"}

AnalysisStages == {"time_series", "category", "words"}

\* s is the beginning of t.
IsPrefix(s, t) == Len(s) <= Len(t) /\ s = SubSeq(t, 1, Len(s))

\* C13: in a run of main whose load_data fails, whatever the failure, main
\* has returned normally once it is over, with exactly one report, the one
\* of the load, and no stage after the load was ever entered: no table was
\* classified or filtered and nothing was shown.
C13_LoadFailureEndsMain ==
  (mainPc # "idle" /\ load_data(data_path).kind = "raise") =>
    /\ mainPc \in {"load", "returned"}
    /\ IsPrefix(stages, <<"load">>)
    /\ main_df = NoTable
    /\ filtered_df = NoTable
    /\ shown = <<>>
    /\ mainPc = "returned" =>
         /\ mainResult = Returned(None)
         /\ Len(reports) = 1
         /\ reports[1].stage = "load"
         /\ failures = <<"load">>

\* main is over after a load that failed with the timestamp ValueError,
\* which the last except clause alone catches.
C13_Witness ==
  /\ mainPc = "returned"
  /\ load_data(data_path) =
       Raised("ValueError", [text |-> "datetime_conversion", cols |-> <<>>])
  /\ reports = <<[stage |-> "load", clause |-> "Exception"]>>
  /\ mainResult = Returned(None)

\* Every record of the table has the category categorize_tech gives its
\* full_text.
CategoryDerived(table) ==
  \A i \in DOMAIN table.rows :
    table.rows[i].category = categorize_tech(Str(table.rows[i].full_text)).value

\* C14: in a run of main whose load succeeded, from the end of the
\* classification on every record of bookmark_df and of filtered_df has the
\* category categorize_tech gives its full_text, whether or not the CSV has
\* a category column; the metrics count these categories, and no stage
\* that is handed records is entered before the classification.
C14_CategoryRecomputed ==
  /\ (mainPc \in LaterStages \cup {"returned"} /\ failures = <<>>) =>
       /\ CategoryDerived(main_df)
       /\ "category" \in main_df.columns
  /\ CategoryDerived(filtered_df)
  /\ metrics.technology =
       Cardinality({i \in DOMAIN filtered_df.rows :
          categorize_tech(Str(filtered_df.rows[i].full_text)).value = TECHNOLOGY})
  /\ \A k \in DOMAIN stages :
       stages[k] \in LaterStages =>
         \E j \in 1..(k - 1) : stages[j] = "classify"

\* main is over for a CSV with a category column; the records that passed
\* the filter include one of the technology category, and the category
\* chart was shown.
C14_Witness ==
  /\ mainPc = "returned"
  /\ "category" \in data_path.header
  /\ \E i \in DOMAIN data_path.rows : data_path.rows[i].category = CsvLabel
  /\ \E i \in DOMAIN filtered_df.rows : filtered_df.rows[i].category = TECHNOLOGY
  /\ \E k \in DOMAIN shown : shown[k].stage = "category"

\* The analysis stages entered, in the order of their entry.
AnalysisEntered == SelectSeq(stages, LAMBDA s : s \in AnalysisStages)

\* C15 as first stated: once main is over after a load and a
\* classification that succeeded, the three analysis stages have run, in
\* their order, and main has returned normally.
C15_StagesAfterClassification ==
  (mainPc = "returned" /\ "classify" \in Range(stages)
     /\ "classify" \notin Range(failures)) =>
    /\ AnalysisEntered = <<"time_series", "category", "words">>
    /\ mainResult = Returned(None)

\* C15: the stages of main are entered in the order of the code; once the
\* filter has been set up (load, classification and date range without
\* failure) a finished main has entered the time-series chart, the
\* category chart and the word analysis in this order, whichever of them
\* failed; a stage that failed has its report and no chart, a stage that
\* did not has its chart and no report; and main has returned normally.
C15_StagesIsolated ==
  /\ IsPrefix(stages, StageOrder)
  /\ (mainPc = "returned" /\ "filter" \in Range(stages)) =>
       /\ stages = StageOrder
       /\ AnalysisEntered = <<"time_series", "category", "words">>
       /\ mainResult = Returned(None)
       /\ \A s \in AnalysisStages :
            /\ s \in Range(failures) <=>
                 \E k \in DOMAIN reports : reports[k].stage = s
            /\ s \notin Range(failures) <=>
                 \E k \in DOMAIN shown : shown[k].stage = s
       /\ Len(reports) = Len(failures)

\* main is over; no record passed the filter; the time-series chart and
\* the word analysis failed, the latter on the empty texts, and the
\* category chart between them was shown.
C15_Witness ==
  /\ mainPc = "returned"
  /\ main_df.rows # <<>>
  /\ filtered_df.rows = <<>>
  /\ failures = <<"time_series", "words">>
  /\ \E k \in DOMAIN shown : shown[k].stage = "category"
  /\ mainResult = Returned(None)

=============================================================================
